---- MODULE Spec2Model ----
(***************************************************************************)
(* The consensus workflow of the document classifier                       *)
(* (src/src/classifier.py) driven by its batch callers (src/app.py,        *)
(* src/scripts/dummy_test_cli.py).                                         *)
(*                                                                         *)
(* A confidence or a threshold is written as its decimal literal in        *)
(* hundredths (0.90 is 90); Float gives the binary64 value Python parses   *)
(* the literal to, and the agreement score is computed on those values     *)
(* with binary64 rounding.  A key that is missing from the GraphState dict *)
(* is the value that state.get(key, default) reads for it.                 *)
(***************************************************************************)
EXTENDS Integers, Sequences, FiniteSets, TLC

VARIABLES config, pc, documents, i, results, state,
          agent_a_future, agent_b_future, step, raised,
          calls, failed, finalize_args, last_guidance, completed, other,
          reconcile_args, classifier_module, cli

vars == <<config, pc, documents, i, results, state,
          agent_a_future, agent_b_future, step, raised,
          calls, failed, finalize_args, last_guidance, completed, other,
          reconcile_args, classifier_module, cli>>

\* config            the ConsensusConfig of the classifier instance
\* pc, documents, i, results
\*                   the caller's loop over the documents and the node the
\*                   graph run is at
\* state             the GraphState of the running classify_document call
\* agent_a_future, agent_b_future
\*                   the two futures of _run_agents with their call arguments
\* step, raised      the graph's super-step counter; the exception that left
\*                   the call
\* History of the run, read only by the properties:
\* calls             capability calls issued, per stage
\* failed            the first capability call that failed
\* finalize_args     the arguments of the finalize_with_supervisor call
\* last_guidance     what the last reconciliation call returned
\* completed         the evaluator calls completed and not yet joined, in
\*                   order of completion
\* other             the locals of a second thread that calls
\*                   classify_document on the same instance (SpecPar)
\* reconcile_args    the arguments of the build_reconciliation_guidance
\*                   call made since the last dispatch of the evaluators
\* classifier_module the functions that the module-level names of
\*                   src/classifier.py are bound to: the nodes look their
\*                   capabilities up there at every call
\* cli               the locals of run_dummy_classification, when that is
\*                   the batch caller

(* ------------------------------ bounds -------------------------------- *)

\* Longest batch of documents explored by SpecBatch.
NumDocs == 2

\* Number of distinct guidance texts the reconciliation capability returns.
NumGuidance == 2

(* ------------------------- program constants -------------------------- *)

\* app.py: st.number_input("Max Rounds", min_value=1, max_value=10, ...)
MinRoundsUI == 1
MaxRoundsUI == 10

\* classifier.py: self.graph.invoke(initial_state) passes no config, so the
\* graph runs under the graph library's default recursion_limit of 25
\* super-steps and raises GraphRecursionError beyond it.
RecursionLimit == 25

(* ------------------------- binary64 arithmetic ------------------------ *)

\* A Python float between 2^-4 and 4, or 0.0, is a multiple of 2^-56: it is
\* held exactly as <<hi, mid, lo>>, the digits of that multiple in base
\* 2^19.  1.0 is <<2^18, 0, 0>>.
Limb == 524288
FloatZero == <<0, 0, 0>>
FloatOne == <<262144, 0, 0>>

\* The spacing of the binary64 values around x (53 significant bits), in
\* units of 2^-56: 2^-52 in [1, 2), 2^-53 in [1/2, 1), ...
Ulp(x) ==
    IF x[1] >= 524288 THEN 32
    ELSE IF x[1] >= 262144 THEN 16
    ELSE IF x[1] >= 131072 THEN 8
    ELSE IF x[1] >= 65536 THEN 4
    ELSE IF x[1] >= 32768 THEN 2
    ELSE 1

\* Carries of the two low digits.
Carry(hi, mid, lo) ==
    LET m == mid + (lo \div Limb)
    IN <<hi + (m \div Limb), m % Limb, lo % Limb>>

\* Round-to-nearest, ties-to-even, of the exact value x + rem / den units
\* (0 <= rem < den) to a binary64.
RoundToNearestEven(x, rem, den) ==
    LET q == Ulp(x)
        low == x[3] % q
        base == x[3] - low
        down == <<x[1], x[2], base>>
        up == Carry(x[1], x[2], base + q)
        twice == 2 * (low * den + rem)
    IN IF twice < q * den THEN down
       ELSE IF twice > q * den THEN up
       ELSE IF (base \div q) % 2 = 0 THEN down ELSE up

\* float("0.hh"): the binary64 nearest to h / 100, by long division of
\* h * 2^56 by 100.
Float(h) ==
    LET c2 == h * 262144
        c1 == (c2 % 100) * Limb
        c0 == (c1 % 100) * Limb
    IN RoundToNearestEven(<<c2 \div 100, c1 \div 100, c0 \div 100>>,
                          c0 % 100, 100)

\* x + y of two floats: the exact sum, rounded.
FloatAdd(x, y) ==
    RoundToNearestEven(Carry(x[1] + y[1], x[2] + y[2], x[3] + y[3]), 0, 1)

\* x / 2.0: exact in binary64.
FloatHalf(x) ==
    <<x[1] \div 2,
      (x[2] + (x[1] % 2) * Limb) \div 2,
      (x[3] + (x[2] % 2) * Limb) \div 2>>

\* x >= y
FloatGeq(x, y) ==
    \/ x[1] > y[1]
    \/ x[1] = y[1] /\ x[2] > y[2]
    \/ x[1] = y[1] /\ x[2] = y[2] /\ x[3] >= y[3]

(* ----------------------------- data model ----------------------------- *)

ClassificationLabel == {"RESTRICTED", "CONFIDENTIAL", "PUBLIC"}

\* Mutant of AgentVoteValid: the confidence range is not checked.
AgentVoteValidAnyConfidence(v) ==
    /\ v.classification \in ClassificationLabel
    /\ v.reason # ""

\* AgentVote: classification is a ClassificationLabel, confidence in [0, 1],
\* reason of at least one character.
AgentVoteValid(v) ==
    /\ v.classification \in ClassificationLabel
    /\ v.confidence >= 0
    /\ v.confidence <= 100
    /\ v.reason # ""

\* The dict value of a vote key that was never written.
NoVote == [classification |-> "none", confidence |-> 0, reason |-> ""]

\* The votes an evaluator call returns in this model.
VoteSamples ==
    { [classification |-> "CONFIDENTIAL", confidence |-> 100,
       reason |-> "evidence"],
      [classification |-> "CONFIDENTIAL", confidence |-> 80,
       reason |-> "evidence"],
      [classification |-> "PUBLIC", confidence |-> 80, reason |-> "evidence"] }

\* Answers of the evaluator's language model that the AgentVote schema
\* rejects: an unknown label, a confidence above 1, an empty reason.
MalformedVotes ==
    { [classification |-> "SECRET", confidence |-> 80, reason |-> "evidence"],
      [classification |-> "PUBLIC", confidence |-> 150, reason |-> "evidence"],
      [classification |-> "PUBLIC", confidence |-> 80, reason |-> ""] }

\* ReconciliationGuidance.instructions_for_retry: opaque non-empty texts,
\* numbered; 0 is "no retry context" (None).
GuidanceTexts == 1..NumGuidance
NoGuidance == 0

\* SupervisorDecision: the schema checks that pydantic applies.
SupervisorDecisionValid(d) ==
    /\ d.classification \in ClassificationLabel
    /\ d.confidence >= 0 /\ d.confidence <= 100
    /\ AgentVoteValid(d.agent_a_vote)
    /\ AgentVoteValid(d.agent_b_vote)
    /\ FloatGeq(d.consensus_score, FloatZero)
    /\ FloatGeq(FloatOne, d.consensus_score)
    /\ d.rounds_used >= 1
    /\ d.reason # ""

NoDecision ==
    [document_id |-> 0, document_name |-> 0, classification |-> "none",
     confidence |-> 0, agent_a_vote |-> NoVote, agent_b_vote |-> NoVote,
     consensus_reached |-> FALSE, consensus_score |-> FloatZero,
     rounds_used |-> 0, reason |-> ""]

\* The configurations the repository's callers build: max_rounds clamped to
\* at least 1 (load_default_config, the CLI) and at most 10 (the app).
CallerConfigs ==
    [min_confidence : {50, 90}, max_rounds : MinRoundsUI..MaxRoundsUI]

\* ConsensusConfig is a plain dataclass: any float and any int are accepted.
\* Sampled, with values outside the documented ranges.
DataclassConfigs ==
    [min_confidence : {20, 90, 110}, max_rounds : 0..(MinRoundsUI + 1)]

(* --------------------------- document loader -------------------------- *)

\* Raw file contents: character sequences over a blank and a letter.
RawContents == { <<" ">>, <<" ", "p">> }

RECURSIVE LStrip(_)
LStrip(s) == IF s # <<>> /\ Head(s) = " " THEN LStrip(Tail(s)) ELSE s

RECURSIVE RStrip(_)
RStrip(s) ==
    IF s # <<>> /\ s[Len(s)] = " " THEN RStrip(SubSeq(s, 1, Len(s) - 1)) ELSE s

\* extract_text_from_upload: decode and .strip()
extract_text_from_upload(content) == RStrip(LStrip(content))

(* ------------------------------ futures ------------------------------- *)

\* A future of the thread pool: the arguments of its classify_with_agent
\* call, its status, and its vote or the exception it holds.
NoFuture ==
    [status |-> "none", vote |-> NoVote, error |-> "none", round |-> 0,
     retry_context |-> NoGuidance, document_name |-> 0, document_text |-> <<>>]

\* Mutant of EvaluatorCall: the round number of the first round is passed
\* in every round.
EvaluatorCallFirstRound(st) ==
    [status |-> "running", vote |-> NoVote, error |-> "none",
     round |-> 1, retry_context |-> st.retry_context,
     document_name |-> st.document_name, document_text |-> st.document_text]

\* executor.submit(classify_with_agent, ...): document_name, document_text,
\* round_num and retry_context as _run_agents read them from the state.
EvaluatorCall(st) ==
    [status |-> "running", vote |-> NoVote, error |-> "none",
     round |-> st.round_num, retry_context |-> st.retry_context,
     document_name |-> st.document_name, document_text |-> st.document_text]

\* What a classify_with_agent call ends with: the AgentVote that the
\* language model's answer validated into, the schema's ValidationError
\* for an answer that does not validate, or an exception of the call.
EvaluatorOutcomes(call) ==
    { IF AgentVoteValid(v)
        THEN [call EXCEPT !.status = "done", !.vote = v]
        ELSE [call EXCEPT !.status = "failed", !.error = "ValidationError"] :
      v \in VoteSamples \cup MalformedVotes }
    \cup { [call EXCEPT !.status = "failed", !.error = "CapabilityError"] }

(* --------------------------- offline doubles -------------------------- *)

\* dummy_test_cli.py, lines 23-41.  A document text is a sequence of
\* tokens: " " is white space, any other token is a word or a phrase.
RESTRICTED_TERMS ==
    {"social security number", "ssn", "credit card", "debit card",
     "account username and password", "network architecture", "source code",
     "vulnerability scan", "red team", "attorney-client"}
PUBLIC_TERMS ==
    {"press release", "public website", "marketing brochure",
     "conference materials"}

\* File contents given to the offline CLI: white space only, plain prose,
\* a restricted term, a public term.
OfflineContents == RawContents \cup { <<"ssn">>, <<"press release", " ">> }
OfflineBatches(n) == UNION { [1..k -> OfflineContents] : k \in 1..n }

\* _heuristic_label
heuristic_label(text) ==
    IF \E k \in 1..Len(text) : text[k] \in RESTRICTED_TERMS
      THEN [classification |-> "RESTRICTED", confidence |-> 96,
            reason |-> "Matched restricted-risk terms in the rubric."]
      ELSE IF \E k \in 1..Len(text) : text[k] \in PUBLIC_TERMS
        THEN [classification |-> "PUBLIC", confidence |-> 94,
              reason |-> "Matched clear public-facing terms."]
        ELSE [classification |-> "CONFIDENTIAL", confidence |-> 92,
              reason |-> "Defaulted to confidential for internal-sensitive style content."]

\* fake_classify_with_agent: `llm` is the name that fake_build_chat_model
\* returned for the evaluator.  min(0.99, confidence + 0.03) is written in
\* hundredths; 0.92 + 0.03 is one unit in the last place above the literal
\* 0.95 and compares like it with every two-decimal threshold.
fake_classify_with_agent(llm, call) ==
    LET h == heuristic_label(call.document_text)
    IN IF cli.force_disagreement /\ call.round = 1
         THEN IF llm = "agent_a"
                THEN [classification |-> "CONFIDENTIAL", confidence |-> 80,
                      reason |-> "Agent A interpreted it as internal-sensitive."]
                ELSE IF llm = "agent_b"
                  THEN [classification |-> "PUBLIC", confidence |-> 81,
                        reason |-> "Agent B interpreted it as public-facing."]
                  ELSE h
         ELSE IF call.retry_context # NoGuidance
           THEN [h EXCEPT !.confidence = IF @ + 3 < 99 THEN @ + 3 ELSE 99]
           ELSE h

\* classifier.py, lines 46-61: classify_with_agent is looked up in the
\* module at the call, so the call runs whatever is bound to the name.
ClassifyWithAgentOutcomes(llm, call) ==
    IF classifier_module.classify_with_agent = "dummy_test_cli"
      THEN LET v == fake_classify_with_agent(llm, call)
           IN { IF AgentVoteValid(v)
                  THEN [call EXCEPT !.status = "done", !.vote = v]
                  ELSE [call EXCEPT !.status = "failed",
                                    !.error = "ValidationError"] }
      ELSE EvaluatorOutcomes(call)

\* fake_build_reconciliation_guidance: one fixed text.
fake_build_reconciliation_guidance == 1

(* ---------------------------- initial state --------------------------- *)

NoFailure == [stage |-> "none", round |-> 0, call |-> "none"]
NoException ==
    [exception |-> "none", origin |-> "none", stage |-> "none", round |-> 0]
NoLastGuidance == [round |-> 0, text |-> NoGuidance]
NoCalls == [evaluation |-> 0, reconciliation |-> 0, arbitration |-> 0]
\* The capability functions under the names that src/classifier.py imports
\* from src.agents (lines 8-13).
AgentsModule ==
    [build_chat_model |-> "agents",
     classify_with_agent |-> "agents",
     build_reconciliation_guidance |-> "agents",
     finalize_with_supervisor |-> "agents"]
\* dummy_test_cli.py, lines 175-178: the four names bound to the closures
\* defined inside run_dummy_classification.
FakeModule ==
    [build_chat_model |-> "dummy_test_cli",
     classify_with_agent |-> "dummy_test_cli",
     build_reconciliation_guidance |-> "dummy_test_cli",
     finalize_with_supervisor |-> "dummy_test_cli"]
\* What the four names may be bound to when run_dummy_classification is
\* called: the functions of src.agents, or doubles that a test installed.
InstalledModules ==
    [build_chat_model : {"agents", "test_double"},
     classify_with_agent : {"agents", "test_double"},
     build_reconciliation_guidance : {"agents"},
     finalize_with_supervisor : {"agents", "test_double"}]
\* No run_dummy_classification call is in progress.
NoCli == [active |-> FALSE, force_disagreement |-> FALSE,
          original |-> AgentsModule]
NoReconcileArgs ==
    [document_name |-> 0, document_text |-> <<>>, round_num |-> 0,
     agent_a_vote |-> NoVote, agent_b_vote |-> NoVote]
NoArgs ==
    [document_id |-> 0, document_name |-> 0, rounds_used |-> 0,
     consensus_reached |-> FALSE, consensus_score |-> FloatZero,
     agent_a_vote |-> NoVote, agent_b_vote |-> NoVote]

EmptyState ==
    [document_id |-> 0, document_name |-> 0, document_text |-> <<>>,
     round_num |-> 1, retry_context |-> NoGuidance,
     agent_a_vote |-> NoVote, agent_b_vote |-> NoVote,
     consensus_reached |-> FALSE, consensus_score |-> FloatZero,
     should_finalize |-> FALSE, supervisor_decision |-> NoDecision]

Batches(n) == UNION { [1..k -> RawContents] : k \in 1..n }

\* What belongs to one thread that calls classify_document: the locals of
\* its caller loop and of the call.  The classifier instance holds only the
\* config, the chat models and the compiled graph.
NoRun ==
    [pc |-> "none", documents |-> <<>>, i |-> 1, results |-> <<>>,
     state |-> EmptyState, agent_a_future |-> NoFuture,
     agent_b_future |-> NoFuture, step |-> 0, raised |-> NoException,
     calls |-> NoCalls, failed |-> NoFailure, finalize_args |-> NoArgs,
     last_guidance |-> NoLastGuidance, completed |-> <<>>,
     reconcile_args |-> NoReconcileArgs]

InitWith(configs, batches) ==
    /\ config \in configs
    /\ documents \in batches
    /\ pc = "init"
    /\ i = 1
    /\ results = <<>>
    /\ state = EmptyState
    /\ agent_a_future = NoFuture
    /\ agent_b_future = NoFuture
    /\ step = 0
    /\ raised = NoException
    /\ calls = NoCalls
    /\ failed = NoFailure
    /\ finalize_args = NoArgs
    /\ last_guidance = NoLastGuidance
    /\ completed = <<>>
    /\ reconcile_args = NoReconcileArgs
    /\ classifier_module = AgentsModule
    /\ cli = NoCli
    /\ other = NoRun

\* One document, every configuration the callers build.
Init == InitWith(CallerConfigs, Batches(1))

\* A batch of documents, the two shortest round budgets.
InitBatch ==
    InitWith({c \in CallerConfigs :
                c.max_rounds <= MinRoundsUI + 1 /\ c.min_confidence = 90},
             Batches(NumDocs))

\* One document, every configuration the dataclass accepts.
InitConfig == InitWith(DataclassConfigs, Batches(1))

\* Valid votes with confidences a language model typically reports.
EvalVoteSamples ==
    [classification : {"CONFIDENTIAL", "PUBLIC"},
     confidence : {80, 85, 95, 100},
     reason : {"evidence"}]

\* The evaluate node about to run on the votes of round 1: the state that
\* _evaluate_votes reads, for every pair of sampled votes.
InitEval ==
    \E a \in EvalVoteSamples, b \in EvalVoteSamples :
      LET st == [EmptyState EXCEPT
                   !.document_id = 1,
                   !.document_name = 1,
                   !.document_text = <<"p">>,
                   !.round_num = 1]
      IN /\ config \in {c \in CallerConfigs : c.max_rounds <= MinRoundsUI + 1}
         /\ documents = << <<"p">> >>
         /\ pc = "evaluate"
         /\ i = 1
         /\ results = <<>>
         /\ state = [st EXCEPT !.agent_a_vote = a, !.agent_b_vote = b]
         /\ agent_a_future =
              [EvaluatorCall(st) EXCEPT !.status = "done", !.vote = a]
         /\ agent_b_future =
              [EvaluatorCall(st) EXCEPT !.status = "done", !.vote = b]
         /\ step = 2
         /\ raised = NoException
         /\ calls = [NoCalls EXCEPT !.evaluation = 2]
         /\ failed = NoFailure
         /\ finalize_args = NoArgs
         /\ last_guidance = NoLastGuidance
         /\ completed = <<"agent_a", "agent_b">>
         /\ reconcile_args = NoReconcileArgs
         /\ classifier_module = AgentsModule
         /\ cli = NoCli
         /\ other = NoRun

\* The round budgets given to the offline CLI: the two shortest, and the
\* shortest that needs more super-steps than the graph allows.
OfflineConfigs ==
    [min_confidence : {90, 99},
     max_rounds : {MinRoundsUI, MinRoundsUI + 1, (RecursionLimit + 2) \div 3}]

\* run_dummy_classification is called with a batch of files, with or
\* without --force-disagreement.
InitOffline ==
    /\ config \in OfflineConfigs
    /\ documents \in OfflineBatches(NumDocs)
    /\ pc = "cli"
    /\ i = 1
    /\ results = <<>>
    /\ state = EmptyState
    /\ agent_a_future = NoFuture
    /\ agent_b_future = NoFuture
    /\ step = 0
    /\ raised = NoException
    /\ calls = NoCalls
    /\ failed = NoFailure
    /\ finalize_args = NoArgs
    /\ last_guidance = NoLastGuidance
    /\ completed = <<>>
    /\ reconcile_args = NoReconcileArgs
    /\ classifier_module \in InstalledModules
    /\ \E f \in BOOLEAN : cli = [NoCli EXCEPT !.force_disagreement = f]
    /\ other = NoRun

\* The offline arbitration about to be applied to sampled last-round
\* votes: the evaluate node of the only round of a run of the offline CLI.
InitArbiter ==
    \E a \in EvalVoteSamples, b \in EvalVoteSamples :
      LET st == [EmptyState EXCEPT
                   !.document_id = 1,
                   !.document_name = 1,
                   !.document_text = <<"p">>,
                   !.round_num = 1]
      IN /\ config \in {c \in CallerConfigs : c.max_rounds = MinRoundsUI}
         /\ documents = << <<"p">> >>
         /\ pc = "evaluate"
         /\ i = 1
         /\ results = <<>>
         /\ state = [st EXCEPT !.agent_a_vote = a, !.agent_b_vote = b]
         /\ agent_a_future =
              [EvaluatorCall(st) EXCEPT !.status = "done", !.vote = a]
         /\ agent_b_future =
              [EvaluatorCall(st) EXCEPT !.status = "done", !.vote = b]
         /\ step = 2
         /\ raised = NoException
         /\ calls = [NoCalls EXCEPT !.evaluation = 2]
         /\ failed = NoFailure
         /\ finalize_args = NoArgs
         /\ last_guidance = NoLastGuidance
         /\ completed = <<>>
         /\ reconcile_args = NoReconcileArgs
         /\ classifier_module = FakeModule
         /\ cli = [NoCli EXCEPT !.active = TRUE]
         /\ other = NoRun

\* Two threads share one classifier: the first constructs it, the second
\* waits at its loop with a document of its own.
InitPar ==
    /\ config \in {c \in CallerConfigs :
                     c.max_rounds = MinRoundsUI + 1 /\ c.min_confidence = 50}
    /\ documents \in Batches(1)
    /\ pc = "init"
    /\ i = 1
    /\ results = <<>>
    /\ state = EmptyState
    /\ agent_a_future = NoFuture
    /\ agent_b_future = NoFuture
    /\ step = 0
    /\ raised = NoException
    /\ calls = NoCalls
    /\ failed = NoFailure
    /\ finalize_args = NoArgs
    /\ last_guidance = NoLastGuidance
    /\ completed = <<>>
    /\ reconcile_args = NoReconcileArgs
    /\ classifier_module = AgentsModule
    /\ cli = NoCli
    /\ \E d \in Batches(1) :
         other = [NoRun EXCEPT !.pc = "loop", !.documents = d]

(* --------------------------- graph runtime ---------------------------- *)

\* The step counter after the running node; the graph raises
\* GraphRecursionError when it exceeds the recursion limit.
OutOfSteps == step + 1 > RecursionLimit

\* dummy_test_cli.py, lines 195-199: the `finally` block of
\* run_dummy_classification binds the four names to the saved functions
\* again.  The app has no such block.
Finally == IF cli.active THEN cli.original ELSE classifier_module

\* Mutant of Raise: the saved functions are not restored when an exception
\* leaves the batch loop.
RaiseWithoutFinally(exc, origin) ==
    /\ pc' = "raised"
    /\ raised' = [exception |-> exc, origin |-> origin,
                  stage |-> "none", round |-> 0]
    /\ classifier_module' = classifier_module

\* An exception leaves graph.invoke, classify_document and the batch loop
\* unchanged: nothing in the repository catches or wraps it, and only the
\* `finally` block of run_dummy_classification runs on its way out.
\* `origin` is the call whose exception object it is.
Raise(exc, origin) ==
    /\ pc' = "raised"
    /\ raised' = [exception |-> exc, origin |-> origin,
                  stage |-> "none", round |-> 0]
    /\ classifier_module' = Finally

\* The edge out of a node: the next node, or GraphRecursionError.
GoTo(next) ==
    IF OutOfSteps
      THEN Raise("GraphRecursionError", "graph") /\ step' = step
      ELSE /\ pc' = next
           /\ step' = step + 1
           /\ raised' = raised
           /\ classifier_module' = classifier_module

(* ----------------------------- batch callers -------------------------- *)

\* DocumentClassifier.__init__: stores the config, builds the three chat
\* models and compiles the graph.  No field of the config is checked.
DocumentClassifierInit ==
    /\ pc = "init"
    /\ pc' = "loop"
    /\ UNCHANGED <<config, other, cli, classifier_module, reconcile_args,
                   documents, i, results, state, agent_a_future,
                   agent_b_future, step, raised, calls, failed, finalize_args,
                   last_guidance, completed>>

\* Mutant of TextIsEmpty: the loop tests `text is None`, which no extracted
\* text is.
TextIsNone(text) == FALSE

\* The loop's test of the extracted text: `if not text` in app.py,
\* `if not text.strip()` in run_dummy_classification.
TextIsEmpty(text) ==
    IF cli.active THEN RStrip(LStrip(text)) = <<>> ELSE text = <<>>

\* Loop body, empty text: `continue`.
SkipEmptyDocument ==
    /\ pc = "loop"
    /\ i <= Len(documents)
    /\ TextIsEmpty(extract_text_from_upload(documents[i]))
    /\ i' = i + 1
    /\ UNCHANGED <<config, other, cli, classifier_module, reconcile_args, pc,
                   documents, results, state, agent_a_future, agent_b_future,
                   step, raised, calls, failed, finalize_args, last_guidance,
                   completed>>

\* classify_document up to graph.invoke: the initial state, START -> run_agents.
ClassifyDocument ==
    /\ pc = "loop"
    /\ i <= Len(documents)
    /\ ~TextIsEmpty(extract_text_from_upload(documents[i]))
    /\ state' = [EmptyState EXCEPT
                   !.document_id = i,
                   !.document_name = i,
                   !.document_text = extract_text_from_upload(documents[i]),
                   !.round_num = 1]
    /\ pc' = "run_agents"
    /\ step' = 1
    /\ agent_a_future' = NoFuture
    /\ agent_b_future' = NoFuture
    /\ calls' = NoCalls
    /\ finalize_args' = NoArgs
    /\ last_guidance' = NoLastGuidance
    /\ completed' = <<>>
    /\ reconcile_args' = NoReconcileArgs
    /\ UNCHANGED <<config, other, cli, classifier_module, documents, i,
                   results, raised, failed>>

\* run_dummy_classification up to its `try`: the four functions bound in
\* the module are saved, and the four names are bound to the closures.
RunDummyClassification ==
    /\ pc = "cli"
    /\ cli' = [cli EXCEPT !.active = TRUE, !.original = classifier_module]
    /\ classifier_module' = FakeModule
    /\ pc' = "init"
    /\ UNCHANGED <<config, other, documents, i, results, state,
                   agent_a_future, agent_b_future, step, raised, calls,
                   failed, finalize_args, last_guidance, completed,
                   reconcile_args>>

\* The loop is exhausted: the results are displayed / returned, through
\* the `finally` block when the caller is run_dummy_classification.
ReturnResults ==
    /\ pc = "loop"
    /\ i > Len(documents)
    /\ pc' = "returned"
    /\ classifier_module' = Finally
    /\ UNCHANGED <<config, other, cli, reconcile_args, documents, i, results,
                   state, agent_a_future, agent_b_future, step, raised, calls,
                   failed, finalize_args, last_guidance, completed>>

(* ------------------------------ run_agents ---------------------------- *)

\* _run_agents, the two executor.submit calls: both evaluator calls are
\* issued with the document, the round number and the retry context read
\* from the state.
RunAgentsSubmit ==
    /\ pc = "run_agents"
    /\ agent_a_future' = EvaluatorCall(state)
    /\ agent_b_future' = EvaluatorCall(state)
    /\ calls' = [calls EXCEPT !.evaluation = @ + 2]
    /\ completed' = <<>>
    /\ reconcile_args' = NoReconcileArgs
    /\ pc' = "join"
    /\ UNCHANGED <<config, other, cli, classifier_module, documents, i,
                   results, state, step, raised, failed, finalize_args,
                   last_guidance>>

\* The first failure of a run, remembered with its stage, round and call.
NoteFailure(stage, round_num, call) ==
    IF failed = NoFailure
      THEN [stage |-> stage, round |-> round_num, call |-> call]
      ELSE failed

\* The worker thread of evaluator A finishes its classify_with_agent call.
AgentACompletes ==
    /\ pc = "join"
    /\ agent_a_future.status = "running"
    /\ \E out \in ClassifyWithAgentOutcomes("agent_a", agent_a_future) :
         /\ agent_a_future' = out
         /\ failed' = IF out.status = "failed"
                        THEN NoteFailure("evaluation", out.round, "agent_a")
                        ELSE failed
    /\ completed' = Append(completed, "agent_a")
    /\ UNCHANGED <<config, other, cli, classifier_module, reconcile_args, pc,
                   documents, i, results, state, agent_b_future, step, raised,
                   calls, finalize_args, last_guidance>>

\* The worker thread of evaluator B finishes its classify_with_agent call.
AgentBCompletes ==
    /\ pc = "join"
    /\ agent_b_future.status = "running"
    /\ \E out \in ClassifyWithAgentOutcomes("agent_b", agent_b_future) :
         /\ agent_b_future' = out
         /\ failed' = IF out.status = "failed"
                        THEN NoteFailure("evaluation", out.round, "agent_b")
                        ELSE failed
    /\ completed' = Append(completed, "agent_b")
    /\ UNCHANGED <<config, other, cli, classifier_module, reconcile_args, pc,
                   documents, i, results, state, agent_a_future, step, raised,
                   calls, finalize_args, last_guidance>>

\* Mutant of RunAgentsJoin: only the result of evaluator A is awaited and
\* checked; the node goes on with whatever B's future holds.
RunAgentsJoinIgnoringB ==
    /\ pc = "join"
    /\ agent_a_future.status # "running"
    /\ IF agent_a_future.status = "failed"
         THEN /\ Raise(agent_a_future.error, "agent_a")
              /\ UNCHANGED <<state, step>>
         ELSE /\ state' = [state EXCEPT
                             !.agent_a_vote = agent_a_future.vote,
                             !.agent_b_vote = agent_b_future.vote]
              /\ GoTo("evaluate")
    /\ UNCHANGED <<config, other, cli, reconcile_args, documents, i, results,
                   agent_a_future, agent_b_future, calls, failed,
                   finalize_args, last_guidance>>
    /\ completed' = <<>>

\* Mutant of RunAgentsJoin: the votes are taken in the order in which the
\* two calls completed.
RunAgentsJoinByCompletion ==
    /\ pc = "join"
    /\ agent_a_future.status # "running"
    /\ agent_b_future.status # "running"
    /\ IF agent_a_future.status = "failed"
         THEN /\ Raise(agent_a_future.error, "agent_a")
              /\ UNCHANGED <<state, step>>
         ELSE IF agent_b_future.status = "failed"
           THEN /\ Raise(agent_b_future.error, "agent_b")
                /\ UNCHANGED <<state, step>>
           ELSE /\ state' =
                     IF completed[1] = "agent_a"
                       THEN [state EXCEPT
                               !.agent_a_vote = agent_a_future.vote,
                               !.agent_b_vote = agent_b_future.vote]
                       ELSE [state EXCEPT
                               !.agent_a_vote = agent_b_future.vote,
                               !.agent_b_vote = agent_a_future.vote]
                /\ GoTo("evaluate")
    /\ UNCHANGED <<config, other, cli, reconcile_args, documents, i, results,
                   agent_a_future, agent_b_future, calls, failed,
                   finalize_args, last_guidance>>
    /\ completed' = <<>>

\* agent_a_future.result(), agent_b_future.result() and the exit of the
\* `with ThreadPoolExecutor` block, which waits for both workers: the node
\* returns both votes, or re-raises the exception of A, else that of B.
\* `completed` lists the calls that completed and are not joined yet.
RunAgentsJoin ==
    /\ pc = "join"
    /\ agent_a_future.status # "running"
    /\ agent_b_future.status # "running"
    /\ IF agent_a_future.status = "failed"
         THEN /\ Raise(agent_a_future.error, "agent_a")
              /\ UNCHANGED <<state, step>>
         ELSE IF agent_b_future.status = "failed"
           THEN /\ Raise(agent_b_future.error, "agent_b")
                /\ UNCHANGED <<state, step>>
           ELSE /\ state' = [state EXCEPT
                               !.agent_a_vote = agent_a_future.vote,
                               !.agent_b_vote = agent_b_future.vote]
                /\ GoTo("evaluate")
    /\ UNCHANGED <<config, other, cli, reconcile_args, documents, i, results,
                   agent_a_future, agent_b_future, calls, failed,
                   finalize_args, last_guidance>>
    /\ completed' = <<>>

(* ------------------------------- evaluate ----------------------------- *)

\* _evaluate_votes, lines 74-78: (a.confidence + b.confidence) / 2.0 and
\* its comparison with the threshold are float operations.
LabelsMatch(a, b) == a.classification = b.classification
ConsensusScore(a, b) ==
    FloatHalf(FloatAdd(Float(a.confidence), Float(b.confidence)))

ConsensusReached(a, b, min_confidence) ==
    LabelsMatch(a, b) /\ FloatGeq(ConsensusScore(a, b), Float(min_confidence))

\* Mutant of ShouldFinalize: the last round of the budget is not run.
ShouldFinalizeOneRoundEarly(consensus_reached, round_num, max_rounds) ==
    consensus_reached \/ round_num >= max_rounds - 1

\* Mutant of ShouldFinalize: the round budget is compared with > .
ShouldFinalizeOneRoundLate(consensus_reached, round_num, max_rounds) ==
    consensus_reached \/ round_num > max_rounds

\* _evaluate_votes, line 81.
ShouldFinalize(consensus_reached, round_num, max_rounds) ==
    consensus_reached \/ round_num >= max_rounds

\* Mutant of RouteAfterEvaluation: the two branches exchanged.
RouteAfterEvaluationSwapped(st) ==
    IF st.should_finalize THEN "reconcile" ELSE "finalize"

\* _route_after_evaluation
RouteAfterEvaluation(st) == IF st.should_finalize THEN "finalize" ELSE "reconcile"

\* Mutant of EvaluateVotesResult: consensus is reported only while the
\* state does not yet say should_finalize.
EvaluateVotesResultOnce(st, cfg) ==
    LET a == st.agent_a_vote
        b == st.agent_b_vote
        reached == /\ ConsensusReached(a, b, cfg.min_confidence)
                   /\ ~st.should_finalize
    IN [consensus_reached |-> reached,
        consensus_score |-> ConsensusScore(a, b),
        should_finalize |->
            ShouldFinalize(reached, st.round_num, cfg.max_rounds)]

\* The dict that _evaluate_votes returns for the state st.
EvaluateVotesResult(st, cfg) ==
    LET a == st.agent_a_vote
        b == st.agent_b_vote
        reached == ConsensusReached(a, b, cfg.min_confidence)
    IN [consensus_reached |-> reached,
        consensus_score |-> ConsensusScore(a, b),
        should_finalize |->
            ShouldFinalize(reached, st.round_num, cfg.max_rounds)]

\* Mutant of EvaluateVotes: a round that ends without finalizing is taken
\* off the round budget of the config.
EvaluateVotesSpendingBudget ==
    /\ pc = "evaluate"
    /\ LET result == EvaluateVotesResult(state, config)
           st == [state EXCEPT
                    !.consensus_reached = result.consensus_reached,
                    !.consensus_score = result.consensus_score,
                    !.should_finalize = result.should_finalize]
       IN /\ state' = st
          /\ GoTo(RouteAfterEvaluation(st))
          /\ config' = IF st.should_finalize THEN config
                        ELSE [config EXCEPT !.max_rounds = @ - 1]
    /\ UNCHANGED <<other, cli, reconcile_args, documents, i, results,
                   agent_a_future, agent_b_future, calls, failed,
                   finalize_args, last_guidance, completed>>

\* The evaluate node: the returned dict merged into the state, and the
\* conditional edge.
EvaluateVotes ==
    /\ pc = "evaluate"
    /\ LET result == EvaluateVotesResult(state, config)
           st == [state EXCEPT
                    !.consensus_reached = result.consensus_reached,
                    !.consensus_score = result.consensus_score,
                    !.should_finalize = result.should_finalize]
       IN /\ state' = st
          /\ GoTo(RouteAfterEvaluation(st))
    /\ UNCHANGED <<config, other, cli, reconcile_args, documents, i, results,
                   agent_a_future, agent_b_future, calls, failed,
                   finalize_args, last_guidance, completed>>

(* ------------------------------ reconcile ----------------------------- *)

\* Mutant of ReconcileArgs: the call is given the number of the round that
\* is about to start.
ReconcileArgsNextRound(st) ==
    [document_name |-> st.document_name,
     document_text |-> st.document_text,
     round_num |-> st.round_num + 1,
     agent_a_vote |-> st.agent_a_vote,
     agent_b_vote |-> st.agent_b_vote]

\* The keyword arguments of the build_reconciliation_guidance call, lines
\* 93-103: the round number and the two votes as the state holds them.
ReconcileArgs(st) ==
    [document_name |-> st.document_name,
     document_text |-> st.document_text,
     round_num |-> st.round_num,
     agent_a_vote |-> st.agent_a_vote,
     agent_b_vote |-> st.agent_b_vote]

\* What a build_reconciliation_guidance call ends with: a guidance text, or
\* 0 for an exception.
ReconciliationOutcomes == GuidanceTexts \cup {NoGuidance}

\* classifier.py, line 97: the call runs whatever is bound to the name
\* build_reconciliation_guidance.
ReconciliationAnswers ==
    IF classifier_module.build_reconciliation_guidance = "dummy_test_cli"
      THEN {fake_build_reconciliation_guidance}
      ELSE ReconciliationOutcomes

\* Mutant of Reconcile: a failed reconciliation call is issued again.
ReconcileRetrying ==
    /\ pc = "reconcile"
    /\ calls' = [calls EXCEPT !.reconciliation = @ + 1]
    /\ reconcile_args' = ReconcileArgs(state)
    /\ \E guidance \in ReconciliationAnswers :
         IF guidance = NoGuidance
           THEN /\ pc' = "reconcile"
                /\ failed' = NoteFailure("reconciliation", state.round_num,
                                         "reconciliation")
                /\ UNCHANGED <<state, step, raised, last_guidance,
                               classifier_module>>
           ELSE /\ state' = [state EXCEPT
                               !.retry_context = guidance,
                               !.round_num = state.round_num + 1]
                /\ last_guidance' = [round |-> state.round_num,
                                     text |-> guidance]
                /\ GoTo("run_agents")
                /\ failed' = failed
    /\ UNCHANGED <<config, other, cli, documents, i, results, agent_a_future,
                   agent_b_future, finalize_args, completed>>

\* Mutant of Reconcile: the guidance of the first reconciliation is kept
\* for every later round.
ReconcileKeepingFirstGuidance ==
    /\ pc = "reconcile"
    /\ calls' = [calls EXCEPT !.reconciliation = @ + 1]
    /\ reconcile_args' = ReconcileArgs(state)
    /\ \E guidance \in ReconciliationAnswers :
         IF guidance = NoGuidance
           THEN /\ Raise("CapabilityError", "reconciliation")
                /\ failed' = NoteFailure("reconciliation", state.round_num,
                                         "reconciliation")
                /\ UNCHANGED <<state, step, last_guidance>>
           ELSE /\ state' = [state EXCEPT
                               !.retry_context =
                                   IF @ = NoGuidance THEN guidance ELSE @,
                               !.round_num = state.round_num + 1]
                /\ last_guidance' = [round |-> state.round_num,
                                     text |-> guidance]
                /\ GoTo("run_agents")
                /\ failed' = failed
    /\ UNCHANGED <<config, other, cli, documents, i, results, agent_a_future,
                   agent_b_future, finalize_args, completed>>

\* The reconcile node: one reconciliation call for the round's votes, then
\* retry_context and round_num + 1; an exception of the call leaves the node.
\* last_guidance remembers what the call returned, and after which round.
Reconcile ==
    /\ pc = "reconcile"
    /\ calls' = [calls EXCEPT !.reconciliation = @ + 1]
    /\ reconcile_args' = ReconcileArgs(state)
    /\ \E guidance \in ReconciliationAnswers :
         IF guidance = NoGuidance
           THEN /\ Raise("CapabilityError", "reconciliation")
                /\ failed' = NoteFailure("reconciliation", state.round_num,
                                         "reconciliation")
                /\ UNCHANGED <<state, step, last_guidance>>
           ELSE /\ state' = [state EXCEPT
                               !.retry_context = guidance,
                               !.round_num = state.round_num + 1]
                /\ last_guidance' = [round |-> state.round_num,
                                     text |-> guidance]
                /\ GoTo("run_agents")
                /\ failed' = failed
    /\ UNCHANGED <<config, other, cli, documents, i, results, agent_a_future,
                   agent_b_future, finalize_args, completed>>

(* ------------------------------- finalize ----------------------------- *)

\* Mutant of FinalizeArgs: the document is numbered by its place among the
\* results instead of the document_id of the state.
FinalizeArgsNumberedByResults(st) ==
    [document_id |-> Len(results) + 1,
     document_name |-> st.document_name,
     rounds_used |-> st.round_num,
     consensus_reached |-> st.consensus_reached,
     consensus_score |-> st.consensus_score,
     agent_a_vote |-> st.agent_a_vote,
     agent_b_vote |-> st.agent_b_vote]

\* The keyword arguments of the finalize_with_supervisor call, lines 115-124.
FinalizeArgs(st) ==
    [document_id |-> st.document_id,
     document_name |-> st.document_name,
     rounds_used |-> st.round_num,
     consensus_reached |-> st.consensus_reached,
     consensus_score |-> st.consensus_score,
     agent_a_vote |-> st.agent_a_vote,
     agent_b_vote |-> st.agent_b_vote]

\* An answer that copies the call's arguments and adopts the vote `chosen`.
EchoDecision(args, chosen) ==
    [document_id |-> args.document_id,
     document_name |-> args.document_name,
     classification |-> chosen.classification,
     confidence |-> chosen.confidence,
     agent_a_vote |-> args.agent_a_vote,
     agent_b_vote |-> args.agent_b_vote,
     consensus_reached |-> args.consensus_reached,
     consensus_score |-> args.consensus_score,
     rounds_used |-> args.rounds_used,
     reason |-> "arbitrated"]

\* What the arbitration capability may answer: a SupervisorDecision whose
\* fields are all written by the capability itself (the language model's
\* structured output).  Sampled: it adopts either vote and copies the
\* process metadata, or reports another rounds_used (one more, or 0, which
\* the schema rejects), another consensus_reached, or A's vote in the place
\* of B's.
ArbitrationOutputs(args) ==
    { EchoDecision(args, args.agent_a_vote),
      EchoDecision(args, args.agent_b_vote),
      [EchoDecision(args, args.agent_a_vote) EXCEPT !.rounds_used = @ + 1],
      [EchoDecision(args, args.agent_a_vote) EXCEPT !.rounds_used = 0],
      [EchoDecision(args, args.agent_a_vote) EXCEPT !.consensus_reached = ~@],
      [EchoDecision(args, args.agent_a_vote) EXCEPT
         !.agent_b_vote = args.agent_a_vote] }

\* Mutant of fake_finalize_with_supervisor: of two disagreeing votes with
\* equal confidences, B's is chosen.
fake_finalize_preferring_b(args) ==
    LET a == args.agent_a_vote
        b == args.agent_b_vote
        chosen == IF a.classification = b.classification THEN a
                  ELSE IF ~FloatGeq(Float(b.confidence), Float(a.confidence))
                    THEN a
                    ELSE b
    IN [EchoDecision(args, chosen) EXCEPT
          !.reason = "Offline dummy supervisor decision."]

\* dummy_test_cli.py, fake_finalize_with_supervisor: A's vote when the
\* labels are equal or A's confidence is >= B's, else B's vote; the
\* process metadata are copied from the arguments.
fake_finalize_with_supervisor(args) ==
    LET a == args.agent_a_vote
        b == args.agent_b_vote
        chosen == IF a.classification = b.classification THEN a
                  ELSE IF FloatGeq(Float(a.confidence), Float(b.confidence))
                    THEN a
                    ELSE b
    IN [EchoDecision(args, chosen) EXCEPT
          !.reason = "Offline dummy supervisor decision."]

\* classifier.py, line 115: the call runs whatever is bound to the name
\* finalize_with_supervisor.
ArbitrationAnswers(args) ==
    IF classifier_module.finalize_with_supervisor = "dummy_test_cli"
      THEN {fake_finalize_with_supervisor(args)}
      ELSE ArbitrationOutputs(args)

\* Mutant of Finalize: an arbitration call that raised is issued again.
FinalizeRetrying ==
    /\ pc = "finalize"
    /\ calls' = [calls EXCEPT !.arbitration = @ + 1]
    /\ finalize_args' = FinalizeArgs(state)
    /\ \/ \E decision \in ArbitrationAnswers(FinalizeArgs(state)) :
            IF ~SupervisorDecisionValid(decision)
              THEN /\ Raise("ValidationError", "arbitration")
                   /\ failed' = NoteFailure("arbitration", state.round_num,
                                            "arbitration")
                   /\ UNCHANGED <<state, step, results, i>>
              ELSE /\ state' = [state EXCEPT !.supervisor_decision = decision]
                   /\ failed' = failed
                   /\ GoTo("loop")
                   /\ results' = IF OutOfSteps THEN results
                                  ELSE Append(results, decision)
                   /\ i' = IF OutOfSteps THEN i ELSE i + 1
       \/ /\ pc' = "finalize"
          /\ UNCHANGED <<state, step, results, i, raised, failed,
                         classifier_module>>
    /\ UNCHANGED <<config, other, cli, reconcile_args, documents,
                   agent_a_future, agent_b_future, last_guidance, completed>>

\* The finalize node, the END edge and the return of classify_document to
\* the loop body, which appends the Decision to the results.  A schema
\* violation of the answer, or an exception of the call, leaves the node.
Finalize ==
    /\ pc = "finalize"
    /\ calls' = [calls EXCEPT !.arbitration = @ + 1]
    /\ finalize_args' = FinalizeArgs(state)
    /\ \/ \E decision \in ArbitrationAnswers(FinalizeArgs(state)) :
            IF ~SupervisorDecisionValid(decision)
              THEN /\ Raise("ValidationError", "arbitration")
                   /\ failed' = NoteFailure("arbitration", state.round_num,
                                            "arbitration")
                   /\ UNCHANGED <<state, step, results, i>>
              ELSE /\ state' = [state EXCEPT !.supervisor_decision = decision]
                   /\ failed' = failed
                   /\ GoTo("loop")
                   /\ results' = IF OutOfSteps THEN results
                                  ELSE Append(results, decision)
                   /\ i' = IF OutOfSteps THEN i ELSE i + 1
       \/ /\ classifier_module.finalize_with_supervisor # "dummy_test_cli"
          /\ Raise("CapabilityError", "arbitration")
          /\ failed' = NoteFailure("arbitration", state.round_num,
                                   "arbitration")
          /\ UNCHANGED <<state, step, results, i>>
    /\ UNCHANGED <<config, other, cli, reconcile_args, documents,
                   agent_a_future, agent_b_future, last_guidance, completed>>

(* ------------------------------ two threads -------------------------- *)

\* The locals of the running thread.
Locals ==
    [pc |-> pc, documents |-> documents, i |-> i, results |-> results,
     state |-> state, agent_a_future |-> agent_a_future,
     agent_b_future |-> agent_b_future, step |-> step, raised |-> raised,
     calls |-> calls, failed |-> failed, finalize_args |-> finalize_args,
     last_guidance |-> last_guidance, completed |-> completed,
     reconcile_args |-> reconcile_args]

\* Mutant of SwitchRun: the GraphState is kept on the classifier instance,
\* so the thread that resumes finds the state of the other run.
SwitchRunSharingState ==
    /\ pc # "init"
    /\ other.pc # "none"
    /\ other' = Locals
    /\ pc' = other.pc
    /\ documents' = other.documents
    /\ i' = other.i
    /\ results' = other.results
    /\ state' = state
    /\ agent_a_future' = other.agent_a_future
    /\ agent_b_future' = other.agent_b_future
    /\ step' = other.step
    /\ raised' = other.raised
    /\ calls' = other.calls
    /\ failed' = other.failed
    /\ finalize_args' = other.finalize_args
    /\ last_guidance' = other.last_guidance
    /\ completed' = other.completed
    /\ reconcile_args' = other.reconcile_args
    /\ UNCHANGED <<config, classifier_module, cli>>

\* The scheduler suspends the running thread and resumes the other one.
\* Every variable but the config is a local of classify_document, of the
\* graph run or of the caller's loop, so each thread resumes with its own.
SwitchRun ==
    /\ pc # "init"
    /\ other.pc # "none"
    /\ other' = Locals
    /\ pc' = other.pc
    /\ documents' = other.documents
    /\ i' = other.i
    /\ results' = other.results
    /\ state' = other.state
    /\ agent_a_future' = other.agent_a_future
    /\ agent_b_future' = other.agent_b_future
    /\ step' = other.step
    /\ raised' = other.raised
    /\ calls' = other.calls
    /\ failed' = other.failed
    /\ finalize_args' = other.finalize_args
    /\ last_guidance' = other.last_guidance
    /\ completed' = other.completed
    /\ reconcile_args' = other.reconcile_args
    /\ UNCHANGED <<config, classifier_module, cli>>

(* ---------------------------- specifications -------------------------- *)

Next ==
    \/ DocumentClassifierInit
    \/ SkipEmptyDocument
    \/ ClassifyDocument
    \/ ReturnResults
    \/ RunAgentsSubmit
    \/ AgentACompletes
    \/ AgentBCompletes
    \/ RunAgentsJoin
    \/ EvaluateVotes
    \/ Reconcile
    \/ Finalize

Spec == Init /\ [][Next]_vars

SpecBatch == InitBatch /\ [][Next]_vars

SpecConfig == InitConfig /\ [][Next]_vars

\* _evaluate_votes applied to sampled votes.
NextEval == EvaluateVotes

SpecEval == InitEval /\ [][NextEval]_vars

\* The offline CLI: run_dummy_classification around the same loop.
NextOffline == Next \/ RunDummyClassification

SpecOffline == InitOffline /\ [][NextOffline]_vars

\* Either batch caller: the app with a budget of one round, or the offline
\* CLI.
InitCallers ==
    \/ InitWith({c \in CallerConfigs :
                   c.max_rounds = MinRoundsUI /\ c.min_confidence = 90},
                Batches(NumDocs))
    \/ InitOffline

SpecCallers == InitCallers /\ [][NextOffline]_vars

\* The last round of a run under the offline arbitration.
NextArbiter == EvaluateVotes \/ Finalize

SpecArbiter == InitArbiter /\ [][NextArbiter]_vars

\* Two threads calling classify_document on one classifier instance.
NextPar == Next \/ SwitchRun

SpecPar == InitPar /\ [][NextPar]_vars

TypeOK ==
    /\ pc \in {"cli", "init", "loop", "run_agents", "join", "evaluate",
               "reconcile",
               "finalize", "returned", "raised"}
    /\ i \in 1..(Len(documents) + 1)
    /\ step \in 0..RecursionLimit
    /\ state.round_num \in 1..(MaxRoundsUI + 1)

(* ------------------------------- claims ------------------------------- *)

\* A classify_document call has returned a Decision to the loop body.
RunSucceeded ==
    /\ pc \in {"loop", "returned"}
    /\ state.supervisor_decision # NoDecision

\* C1: when no evaluation, reconciliation or arbitration call fails,
\* classify_document ends with a Decision: a run ends in an exception only
\* if a capability call failed.
C1_AlwaysReachesDecision ==
    pc = "raised" => failed # NoFailure

\* C2: every Decision in the results has rounds_used in [1, max_rounds].
C2_RoundsUsedWithinBudget ==
    \A k \in 1..Len(results) :
        /\ results[k].rounds_used >= 1
        /\ results[k].rounds_used <= config.max_rounds

\* C3: the reconciliation capability is never invoked in a round whose
\* number is max_rounds or more, and a successful run has invoked it
\* rounds_used - 1 times when arbitration was told consensus_reached = true
\* and max_rounds - 1 times when it was told false (rounds_used and
\* consensus_reached being the values the workflow hands to arbitration).
C3_ReconciliationCount ==
    /\ calls.reconciliation <= config.max_rounds - 1
    /\ pc = "reconcile" => state.round_num < config.max_rounds
    /\ RunSucceeded =>
         calls.reconciliation =
            IF finalize_args.consensus_reached
              THEN finalize_args.rounds_used - 1
              ELSE config.max_rounds - 1

\* C3 witness: a forced finalization after two reconciliations.
C3_Witness ==
    /\ RunSucceeded
    /\ ~finalize_args.consensus_reached
    /\ calls.reconciliation = 2
    /\ config.max_rounds = 3

\* C4: the rounds_used of the returned Decision is the round number at
\* which the workflow entered Finalize.
C4_RoundsUsedIsFinalRound ==
    RunSucceeded => state.supervisor_decision.rounds_used = state.round_num

\* C5: the step out of Evaluate in round r goes to Finalize when the
\* evaluation found consensus or when r >= max_rounds, and to Reconcile
\* otherwise; it goes nowhere else.
C5_EvaluateRouting ==
    [][pc = "evaluate" =>
         LET finalize == \/ state'.consensus_reached
                         \/ state.round_num >= config.max_rounds
         IN \/ finalize /\ pc' = "finalize"
            \/ ~finalize /\ pc' = "reconcile"]_vars

\* C5 witness: Finalize entered without consensus, in the last round of a
\* budget of at least two rounds.
C5_Witness ==
    /\ pc = "finalize"
    /\ ~state.consensus_reached
    /\ state.round_num = config.max_rounds
    /\ config.max_rounds >= 2

\* C6: the failure that reaches the caller after a capability call failed
\* names the stage and the round of the failed call.
C6_StructuredFailure ==
    (pc = "raised" /\ failed # NoFailure) =>
        /\ raised.stage = failed.stage
        /\ raised.round = failed.round

\* The documented ranges of the run configuration.
ConsensusConfigValid(c) ==
    /\ c.min_confidence >= 50 /\ c.min_confidence <= 100
    /\ c.max_rounds >= 1

\* C7: under a configuration with min_confidence outside [0.5, 1.0] or
\* max_rounds < 1 no evaluator, reconciliation or arbitration call is ever
\* made and no document is classified.
C7_InvalidConfigRejected ==
    ~ConsensusConfigValid(config) => (calls = NoCalls /\ results = <<>>)

\* C8: a batch ends only after every document has been visited, with the
\* results handed over: a capability failure in one document neither drops
\* the Decisions made before it nor stops the documents after it.
C8_BatchIsolation ==
    pc \in {"returned", "raised"} =>
        /\ pc = "returned"
        /\ i > Len(documents)

\* C9: Evaluate, Reconcile and Finalize of a round run only on the two
\* votes that the two evaluator calls of that round returned, and once an
\* evaluator call has failed none of them runs.
C9_BothVotesRequired ==
    /\ pc \in {"evaluate", "reconcile", "finalize"} =>
         /\ agent_a_future.status = "done"
         /\ agent_b_future.status = "done"
         /\ agent_a_future.round = state.round_num
         /\ agent_b_future.round = state.round_num
         /\ state.agent_a_vote = agent_a_future.vote
         /\ state.agent_b_vote = agent_b_future.vote
    /\ (agent_a_future.status = "failed" \/ agent_b_future.status = "failed")
         => pc \in {"join", "raised"}

\* C9 witness: evaluator A returned a vote, evaluator B failed, and the run
\* ended in the exception.
C9_Witness ==
    /\ pc = "raised"
    /\ agent_a_future.status = "done"
    /\ agent_b_future.status = "failed"

\* C10: once a capability call has failed, no capability call is issued,
\* the round counter keeps its value, and the run can only end in the
\* capability's exception reaching the caller.
C10_NoCallAfterFailure ==
    /\ [](failed # NoFailure => pc \in {"join", "raised"})
    /\ [][failed # NoFailure =>
            /\ calls' = calls
            /\ state'.round_num = state.round_num
            /\ pc' \in {"join", "raised"}
            /\ pc' = "raised" =>
                 raised'.exception \in {"CapabilityError", "ValidationError"}]_vars

\* C10 witness: the reconciliation call of round 2 failed and the exception
\* reached the caller.
C10_Witness ==
    /\ pc = "raised"
    /\ failed.stage = "reconciliation"
    /\ failed.round = 2
    /\ calls.reconciliation = 2
    /\ state.round_num = 2

\* C11: the evaluator calls of round 1 receive no retry guidance, and the
\* two evaluator calls of round N + 1 receive exactly the text that the
\* reconciliation call made after round N returned.
C11_GuidanceFlow ==
    \A f \in {agent_a_future, agent_b_future} :
        (f.status # "none" /\ f.round = state.round_num) =>
            IF f.round = 1
              THEN f.retry_context = NoGuidance
              ELSE /\ last_guidance.round = f.round - 1
                   /\ f.retry_context = last_guidance.text
                   /\ f.retry_context \in GuidanceTexts

\* C11 witness: the evaluator calls of round 3 are running with the second
\* guidance text, after two reconciliations.
C11_Witness ==
    /\ pc = "join"
    /\ agent_a_future.round = 3
    /\ agent_b_future.round = 3
    /\ agent_a_future.retry_context = 2
    /\ calls.reconciliation = 2

\* C12: consensus is reached exactly when the two labels are equal and the
\* average of the two confidences is at least the threshold; an average
\* equal to the threshold reaches consensus, differing labels never do.
C12_ConsensusIffAverageAtThreshold ==
    pc \in {"finalize", "reconcile"} =>
        LET a == state.agent_a_vote
            b == state.agent_b_vote
        IN state.consensus_reached <=>
              /\ a.classification = b.classification
              /\ a.confidence + b.confidence >= 2 * config.min_confidence

\* C13: evaluating again on the state that an evaluation produced gives the
\* same consensus_reached, consensus_score and should_finalize, and an
\* evaluation changes nothing of the workflow state but these three fields.
C13_EvaluateIdempotentAndFramed ==
    [][pc = "evaluate" =>
         /\ EvaluateVotesResult(state', config) =
               [consensus_reached |-> state'.consensus_reached,
                consensus_score |-> state'.consensus_score,
                should_finalize |-> state'.should_finalize]
         /\ state' = [state EXCEPT
                        !.consensus_reached = state'.consensus_reached,
                        !.consensus_score = state'.consensus_score,
                        !.should_finalize = state'.should_finalize]
         /\ UNCHANGED <<config, other, cli, reconcile_args, documents, i,
                        results, agent_a_future, agent_b_future, calls,
                        failed, finalize_args, last_guidance, completed>>]_vars

\* C13 witness: the evaluation of round 2 found consensus and left the
\* round number, the retry context and the votes as they were.
C13_Witness ==
    /\ pc = "finalize"
    /\ state.consensus_reached
    /\ state.should_finalize
    /\ state.round_num = 2
    /\ state.retry_context \in GuidanceTexts
    /\ state.agent_a_vote = agent_a_future.vote
    /\ config.max_rounds > 2

\* C14: arbitration is invoked with the two votes that the evaluator calls
\* of the last round returned and with the consensus flag and score
\* computed from these votes, and the returned Decision carries the same
\* two votes.
C14_DecisionCarriesLastRoundVotes ==
    /\ calls.arbitration >= 1 =>
         /\ finalize_args.agent_a_vote = agent_a_future.vote
         /\ finalize_args.agent_b_vote = agent_b_future.vote
         /\ agent_a_future.round = finalize_args.rounds_used
         /\ agent_b_future.round = finalize_args.rounds_used
         /\ finalize_args.consensus_score =
               ConsensusScore(agent_a_future.vote, agent_b_future.vote)
         /\ finalize_args.consensus_reached =
               ConsensusReached(agent_a_future.vote, agent_b_future.vote,
                                config.min_confidence)
    /\ RunSucceeded =>
         /\ state.supervisor_decision.agent_a_vote = agent_a_future.vote
         /\ state.supervisor_decision.agent_b_vote = agent_b_future.vote

\* C15: a run invokes the arbitration capability at most once, and exactly
\* once when it returns a Decision; the call is made only from the step
\* that follows the Evaluate of the terminating round, and no evaluator,
\* reconciliation or arbitration call follows it.
C15_ArbitrationOnceAndLast ==
    /\ [](/\ calls.arbitration <= 1
          /\ RunSucceeded => calls.arbitration = 1
          /\ pc = "finalize" =>
               /\ calls.arbitration = 0
               /\ state.should_finalize
               /\ agent_a_future.round = state.round_num
          /\ calls.arbitration = 1 => pc \in {"loop", "returned", "raised"})
    /\ [][/\ pc' = "finalize" => pc = "evaluate"
          /\ calls'.arbitration # calls.arbitration => pc = "finalize"
          /\ calls.arbitration = 1 => calls' = calls]_vars

\* C15 witness: a run of two rounds has returned its Decision after one
\* arbitration call, which followed four evaluator calls and one
\* reconciliation call.
C15_Witness ==
    /\ pc = "returned"
    /\ RunSucceeded
    /\ calls = [evaluation |-> 4, reconciliation |-> 1, arbitration |-> 1]

\* C16: a vote or a Decision that violates the schema (a label outside the
\* three, a confidence or agreement score outside [0, 1], an empty reason,
\* rounds_used < 1) is never accepted: the votes the workflow works on and
\* the Decisions it returns satisfy the schema, and a run in which an
\* answer was rejected ends in the failure without a Decision.
C16_SchemaViolationsRejected ==
    /\ pc \in {"evaluate", "reconcile", "finalize"} =>
         \A v \in {state.agent_a_vote, state.agent_b_vote} :
             /\ v.classification \in {"RESTRICTED", "CONFIDENTIAL", "PUBLIC"}
             /\ v.confidence \in 0..100
             /\ v.reason # ""
    /\ \A k \in 1..Len(results) :
         /\ results[k].classification
               \in {"RESTRICTED", "CONFIDENTIAL", "PUBLIC"}
         /\ results[k].confidence \in 0..100
         /\ results[k].reason # ""
         /\ results[k].rounds_used >= 1
         /\ FloatGeq(results[k].consensus_score, FloatZero)
         /\ FloatGeq(FloatOne, results[k].consensus_score)
         /\ results[k].agent_a_vote.confidence \in 0..100
         /\ results[k].agent_b_vote.confidence \in 0..100
    /\ \/ agent_a_future.error = "ValidationError"
       \/ agent_b_future.error = "ValidationError"
       \/ raised.exception = "ValidationError"
       => /\ pc \in {"join", "raised"}
          /\ state.supervisor_decision = NoDecision
          /\ results = <<>>

\* C16 witness: evaluator A returned a valid vote, the answer of evaluator
\* B was rejected by the schema, and the run ended in that failure.
C16_Witness ==
    /\ pc = "raised"
    /\ raised.exception = "ValidationError"
    /\ raised.origin = "agent_b"
    /\ agent_a_future.status = "done"
    /\ results = <<>>

\* What holds of the locals r of a run that executes alone: the round
\* counter counts the Dispatch steps, the retry context is the last
\* guidance returned, both evaluator calls got the run's own document,
\* round and retry context, the votes in the state are those the two calls
\* of the round returned, and the Decision was made for the run's own
\* document from the arguments built from its own state.
RunAsAlone(r) ==
    /\ r.state.round_num = r.last_guidance.round + 1
    /\ r.state.retry_context = r.last_guidance.text
    /\ r.calls.reconciliation = r.last_guidance.round
         \/ (r.failed.stage = "reconciliation"
               /\ r.calls.reconciliation = r.last_guidance.round + 1)
    /\ r.pc = "run_agents" => r.calls.evaluation = 2 * (r.state.round_num - 1)
    /\ r.agent_a_future.status # "none" =>
         \A f \in {r.agent_a_future, r.agent_b_future} :
             /\ f.round = r.calls.evaluation \div 2
             /\ f.document_text = r.state.document_text
             /\ f.document_name = r.state.document_name
             /\ f.round = r.state.round_num => f.retry_context = r.state.retry_context
    /\ r.pc \in {"evaluate", "reconcile", "finalize"} =>
         /\ r.agent_a_future.round = r.state.round_num
         /\ r.state.agent_a_vote = r.agent_a_future.vote
         /\ r.state.agent_b_vote = r.agent_b_future.vote
    /\ r.state.supervisor_decision # NoDecision =>
         /\ r.finalize_args = FinalizeArgs(r.state)
         /\ r.finalize_args.agent_a_vote = r.agent_a_future.vote
         /\ r.finalize_args.agent_b_vote = r.agent_b_future.vote
         /\ r.state.supervisor_decision
               \in ArbitrationOutputs(r.finalize_args)
         /\ r.results = <<r.state.supervisor_decision>>

\* C17: two classify_document runs interleaved on one classifier instance
\* do not interfere: a step of one run changes nothing of the other run,
\* and in every interleaving the round counter, retry guidance, votes and
\* Decision of each run are related as in a run that executes alone.
C17_RunsDoNotInterfere ==
    /\ [](RunAsAlone(Locals) /\ RunAsAlone(other))
    /\ [][other' # other => (other' = Locals /\ Locals' = other)]_vars

\* C17 witness: one run is evaluating its second round while the other
\* run, suspended, waits for evaluator B in its first round.
C17_Witness ==
    /\ pc = "evaluate"
    /\ state.round_num = 2
    /\ other.pc = "join"
    /\ other.state.round_num = 1
    /\ other.agent_a_future.status = "done"
    /\ other.agent_b_future.status = "running"
    /\ other.agent_a_future.vote # agent_a_future.vote

\* C18: when an evaluator call of a round fails, the failure that reaches
\* the caller is the one of the call that failed first, and the sibling
\* call, cancelled, has not completed after that failure: the round's
\* failure does not wait for it.
C18_FirstFailureWinsSiblingCancelled ==
    [][(pc = "join" /\ pc' = "raised" /\ failed.stage = "evaluation") =>
          /\ raised'.origin = failed.call
          /\ completed[Len(completed)] = failed.call]_vars

\* C19: the round counter is 1 when a run starts, only Reconcile changes
\* it, by adding one, and it never decreases; the two evaluator calls of
\* the k-th Dispatch of a run both receive the round number k.
C19_RoundCounter ==
    /\ [](/\ pc = "run_agents" => state.round_num = (calls.evaluation \div 2) + 1
          /\ calls.evaluation = 0 => state.round_num = 1
          /\ agent_a_future.status # "none" =>
               /\ agent_a_future.round = calls.evaluation \div 2
               /\ agent_b_future.round = calls.evaluation \div 2)
    /\ [][/\ state'.round_num >= state.round_num
          /\ state'.round_num # state.round_num =>
               /\ pc = "reconcile"
               /\ state'.round_num = state.round_num + 1]_vars

\* C19 witness: the third Dispatch of a run has issued its two calls with
\* round number 3.
C19_Witness ==
    /\ pc = "join"
    /\ calls.evaluation = 6
    /\ state.round_num = 3
    /\ agent_a_future.round = 3
    /\ agent_b_future.round = 3

\* C20: the two evaluator calls of a round receive the same document text,
\* round number and retry guidance, and the join stores A's vote as
\* agent_a_vote and B's vote as agent_b_vote whichever call completed
\* first.
C20_SameInputsFixedSlots ==
    /\ [](agent_a_future.status # "none" =>
            /\ agent_a_future.document_text = agent_b_future.document_text
            /\ agent_a_future.document_name = agent_b_future.document_name
            /\ agent_a_future.round = agent_b_future.round
            /\ agent_a_future.retry_context = agent_b_future.retry_context
            /\ agent_a_future.document_text = state.document_text)
    /\ [][(pc = "join" /\ pc' = "evaluate") =>
            /\ state'.agent_a_vote = agent_a_future.vote
            /\ state'.agent_b_vote = agent_b_future.vote]_vars

\* C20 witness: evaluator B completed before evaluator A, with a different
\* vote, and the join is about to store the two votes.
C20_Witness ==
    /\ pc = "join"
    /\ completed = <<"agent_b", "agent_a">>
    /\ agent_a_future.status = "done"
    /\ agent_b_future.status = "done"
    /\ agent_a_future.vote # agent_b_future.vote
    /\ agent_a_future.round = 2

\* C21: the k-th reconciliation call of a run is given round number k and
\* the two votes that the evaluator calls of round k returned; and once the
\* votes of a round are joined, the state holds them in place of the votes
\* of the round before.
C21_ReconcileArguments ==
    /\ pc \in {"evaluate", "reconcile", "finalize"} =>
         /\ agent_a_future.round = state.round_num
         /\ agent_b_future.round = state.round_num
         /\ state.agent_a_vote = agent_a_future.vote
         /\ state.agent_b_vote = agent_b_future.vote
    /\ reconcile_args # NoReconcileArgs =>
         /\ reconcile_args.round_num = calls.reconciliation
         /\ agent_a_future.status = "done"
         /\ agent_b_future.status = "done"
         /\ agent_a_future.round = calls.reconciliation
         /\ agent_b_future.round = calls.reconciliation
         /\ reconcile_args.agent_a_vote = agent_a_future.vote
         /\ reconcile_args.agent_b_vote = agent_b_future.vote

\* C21 witness: the second reconciliation call of a run has been made, with
\* the disagreeing votes of round 2.
C21_Witness ==
    /\ pc = "run_agents"
    /\ calls.reconciliation = 2
    /\ reconcile_args.round_num = 2
    /\ reconcile_args.agent_a_vote.classification = "PUBLIC"
    /\ reconcile_args.agent_b_vote.classification = "CONFIDENTIAL"

\* C22: no step of the workflow changes min_confidence or max_rounds, and
\* the evaluation of every round compares with those values.
C22_ConfigNeverModified ==
    [][ /\ config' = config
        /\ pc = "evaluate" =>
             /\ state'.consensus_reached =
                  ConsensusReached(state.agent_a_vote, state.agent_b_vote,
                                   config.min_confidence)
             /\ state'.should_finalize =
                  (state'.consensus_reached
                     \/ state.round_num >= config.max_rounds) ]_vars

\* C22 witness: a run with a budget of three rounds has returned after its
\* third round without consensus.
C22_Witness ==
    /\ pc = "returned"
    /\ config.max_rounds = 3
    /\ state.round_num = 3
    /\ ~state.consensus_reached
    /\ state.supervisor_decision # NoDecision

\* C23: under the offline arbitration double the Decision's label is the
\* agreed label when the two last-round labels are equal (so whenever
\* consensus was reached), and otherwise the label of the vote with the
\* higher confidence, A's label when the two confidences are equal.
C23_OfflineArbitrationLabel ==
    (classifier_module.finalize_with_supervisor = "dummy_test_cli"
       /\ state.supervisor_decision # NoDecision) =>
        LET a == agent_a_future.vote
            b == agent_b_future.vote
            d == state.supervisor_decision
        IN /\ state.consensus_reached => a.classification = b.classification
           /\ a.classification = b.classification =>
                d.classification = a.classification
           /\ a.classification # b.classification =>
                d.classification =
                    IF a.confidence >= b.confidence
                      THEN a.classification
                      ELSE b.classification

\* C23 witness: the offline arbitration has decided between two disagreeing
\* votes of equal confidence, for A's label.
C23_Witness ==
    /\ classifier_module.finalize_with_supervisor = "dummy_test_cli"
    /\ state.supervisor_decision # NoDecision
    /\ agent_a_future.vote.classification = "PUBLIC"
    /\ agent_b_future.vote.classification = "CONFIDENTIAL"
    /\ agent_a_future.vote.confidence = agent_b_future.vote.confidence
    /\ state.supervisor_decision.classification = "PUBLIC"

\* C24: when the workflow is in Finalize in a round before the last round
\* of the budget, that round's votes reached consensus; and an arbitration
\* call that is told consensus_reached = false is made in round max_rounds,
\* after max_rounds rounds of evaluator calls.
C24_EarlyFinalizeMeansConsensus ==
    /\ (pc = "finalize" /\ state.round_num < config.max_rounds) =>
         /\ state.consensus_reached
         /\ agent_a_future.round = state.round_num
         /\ ConsensusReached(agent_a_future.vote, agent_b_future.vote,
                             config.min_confidence)
    /\ (calls.arbitration > 0 /\ ~finalize_args.consensus_reached) =>
         /\ finalize_args.rounds_used = config.max_rounds
         /\ calls.evaluation = 2 * config.max_rounds
         /\ calls.reconciliation = config.max_rounds - 1

\* C24 witness: Finalize entered in round 2 of a budget of 3 rounds.
C24_Witness ==
    /\ pc = "finalize"
    /\ config.max_rounds = 3
    /\ state.round_num = 2
    /\ state.consensus_reached

\* C25: a successful run that finalizes in round R has executed 3 * R nodes
\* (the step counter, which counts the START edge as well, stands at
\* 3 * R + 1) and issued 2 * R evaluator calls, R - 1 reconciliation calls
\* and one arbitration call; and no run is stopped by a cap on the number
\* of steps other than max_rounds.
C25_StepsLinearAndUncapped ==
    /\ RunSucceeded =>
         /\ step = 3 * state.round_num + 1
         /\ calls.evaluation = 2 * state.round_num
         /\ calls.reconciliation = state.round_num - 1
         /\ calls.arbitration = 1
    /\ raised.exception # "GraphRecursionError"

\* C26: the evaluation is symmetric in the two votes (with the votes of A
\* and B exchanged it gives the same consensus_reached, agreement score and
\* routing), and its outcome depends only on whether the labels are equal,
\* on the sum of the two confidences, on the threshold and on the round
\* number: any two votes with the same label equality and the same sum of
\* confidences give the same consensus_reached and the same routing.
C26_EvaluationSymmetric ==
    pc \in {"finalize", "reconcile"} =>
        LET a == state.agent_a_vote
            b == state.agent_b_vote
            evaluated == [consensus_reached |-> state.consensus_reached,
                          consensus_score |-> state.consensus_score,
                          should_finalize |-> state.should_finalize]
            With(x, y) == [state EXCEPT !.agent_a_vote = x, !.agent_b_vote = y]
        IN /\ EvaluateVotesResult(With(b, a), config) = evaluated
           /\ RouteAfterEvaluation(
                  [With(b, a) EXCEPT
                     !.should_finalize =
                        EvaluateVotesResult(With(b, a), config).should_finalize])
                = pc
           /\ \A x \in EvalVoteSamples, y \in EvalVoteSamples :
                (/\ LabelsMatch(x, y) = LabelsMatch(a, b)
                 /\ x.confidence + y.confidence = a.confidence + b.confidence)
                => LET other_result == EvaluateVotesResult(With(x, y), config)
                   IN /\ other_result.consensus_reached = state.consensus_reached
                      /\ other_result.should_finalize = state.should_finalize

\* The nodes of the workflow.
WorkflowNodes == {"run_agents", "join", "evaluate", "reconcile", "finalize"}

\* C27: document_id, document_name and document_text of the state are left
\* unchanged by every workflow step and are those given to classify_document
\* (the loop's document i: id and name i, its extracted text); every
\* evaluator and reconciliation call receives that name and text, and the
\* arbitration call that id and name.
C27_DocumentFieldsUnchanged ==
    /\ [](pc \in WorkflowNodes =>
            /\ state.document_id = i
            /\ state.document_name = i
            /\ state.document_text = extract_text_from_upload(documents[i])
            /\ \A f \in {agent_a_future, agent_b_future} :
                 f.status # "none" =>
                   /\ f.document_name = i
                   /\ f.document_text = extract_text_from_upload(documents[i])
            /\ reconcile_args # NoReconcileArgs =>
                 /\ reconcile_args.document_name = i
                 /\ reconcile_args.document_text =
                       extract_text_from_upload(documents[i]))
    /\ [][(pc \in WorkflowNodes) =>
            (/\ state'.document_id = state.document_id
             /\ state'.document_name = state.document_name
             /\ state'.document_text = state.document_text)]_vars
    /\ [][pc = "finalize" =>
            (/\ finalize_args'.document_id = i
             /\ finalize_args'.document_name = i)]_vars

\* C27 witness: the second document of a batch, whose first document was
\* skipped, has been through a reconciliation and its run has returned
\* from the arbitration call.
C27_Witness ==
    /\ pc = "loop"
    /\ i = 3
    /\ results # <<>>
    /\ state.document_id = 2
    /\ finalize_args.document_id = 2
    /\ extract_text_from_upload(documents[1]) = <<>>
    /\ calls.reconciliation = 1

\* C28: neither batch caller calls classify_document with an empty text
\* (no run and no evaluator call has one); a document whose extracted text
\* is empty is skipped without any call, and the loop goes on with the
\* next document of the batch.
C28_EmptyDocumentsSkipped ==
    /\ [](pc \in WorkflowNodes =>
            /\ state.document_text # <<>>
            /\ \A f \in {agent_a_future, agent_b_future} :
                 f.status # "none" => f.document_text # <<>>)
    /\ [][(/\ pc = "loop"
           /\ i <= Len(documents)
           /\ extract_text_from_upload(documents[i]) = <<>>) =>
            (/\ pc' = "loop"
             /\ i' = i + 1
             /\ results' = results
             /\ calls' = calls
             /\ raised' = raised)]_vars

\* C28 witness: the offline CLI has returned one Decision, for the second
\* document of a batch whose first document was empty.
C28_Witness ==
    /\ pc = "returned"
    /\ cli.active
    /\ Len(documents) = 2
    /\ extract_text_from_upload(documents[1]) = <<>>
    /\ Len(results) = 1
    /\ finalize_args.document_id = 2

\* C29: after run_dummy_classification has returned or failed, each of the
\* four module-level names is bound to the function that was installed
\* before the call: the functions saved at the call are those installed
\* then, the saved functions do not change during the batch, and they are
\* the installed ones again once the call is over.
C29_PatchedFunctionsRestored ==
    /\ []((cli.active /\ pc \in {"returned", "raised"}) =>
            classifier_module = cli.original)
    /\ [][(pc = "cli") => cli'.original = classifier_module]_vars
    /\ [][cli.active => cli'.original = cli.original]_vars

\* C29 witness: a run of the batch was stopped by GraphRecursionError, and
\* the doubles that a test had installed before the call are installed
\* again.
C29_Witness ==
    /\ pc = "raised"
    /\ cli.active
    /\ raised.exception = "GraphRecursionError"
    /\ classifier_module.classify_with_agent = "test_double"
    /\ classifier_module.finalize_with_supervisor = "test_double"
    /\ Len(results) = 1

====
